---- MODULE Spec2Model ----
(***************************************************************************)
(* The Secure Provisioning Module's HSM wrapper (package se): the session  *)
(* queue, NewHSM and the public operations, with the goroutines that call  *)
(* them.  Process 0 is the goroutine that runs NewHSM; processes 1..n are  *)
(* the goroutines that call the public operations of the HSM it returns.   *)
(***************************************************************************)
EXTENDS Integers, Sequences, FiniteSets, TLC

\* ------------------------------------------------------------------ bounds
MaxSessions == 2
NumCallers == 3
MaxParams == 2

\* --------------------------------------------------------------- variables
VARIABLES
    cfg,        \* the HSMConfig given to NewHSM
    tok,        \* the PKCS#11 token: number of tokens, labels of its key objects
    sessState,  \* per session object: "unopened", "opened" or "loggedin"
    q,          \* the sessionQueue: Nil, or [numSessions, s] with s the channel's buffer
    recvq,      \* the goroutines blocked in <-q.s, in the order they blocked
    hsm,        \* the HSM struct: Nil, or [SymmetricKeys, PrivateKeys]
    ret,        \* what NewHSM returns: "none" (running), "hsm", the code of its
                \* error ("Internal"), or "panic"
    i,          \* the loop index of NewHSM / openSessions
    pc,         \* per process: where it is
    held,       \* per process: the session loaned to it (0: none)
    handle,     \* per process: the session its release closure captured (0: none)
    relCnt,     \* per process: calls of the release closure of its acquisition
    waited,     \* per process: its getHandle blocked before it returned
    res,        \* per process: the run of the operation it executed (observed callers)
    callers,    \* the goroutines that call operations
    observed,   \* the callers whose operation run is recorded in res
    prev,       \* per process: how its previous operation ended ("off": not recorded)
    db,         \* the proxy buffer's store: device id -> the data recorded for it
    resp        \* what the last RegisterDevice call did and answered

vars == <<cfg, tok, sessState, q, recvq, hsm, ret, i, pc, held, handle, relCnt,
          waited, res, callers, observed, prev, db, resp>>

Nil == [nil |-> TRUE]
\* The absent input or result of a run (Go's nil, or no parameter).
None == [none |-> TRUE]
NoRun == [op |-> "none", in |-> None, exit |-> "none", code |-> "none", log |-> <<>>,
          out |-> None, gen |-> {}, des |-> {}, sess |-> 0]

Sessions == 1..MaxSessions
AllCallers == 1..NumCallers
Procs == 0..NumCallers

SymLabels == {"KG", "KT", "HighSecKdfSeed", "LowSecKdfSeed"}
PrivLabels == {"KCAPriv"}
AllLabels == SymLabels \cup PrivLabels

\* The object id the token stores for the key with a label.
UID(label) ==
    CASE label = "KG" -> 11
      [] label = "KT" -> 12
      [] label = "HighSecKdfSeed" -> 13
      [] label = "LowSecKdfSeed" -> 14
      [] label = "KCAPriv" -> 21
      [] OTHER -> 99

EmptyMap == [l \in {} |-> 0]
MapPut(m, k, v) == [x \in (DOMAIN m) \cup {k} |-> IF x = k THEN v ELSE m[x]]

\* ------------------------------------------------------------ sessionQueue
\* newSessionQueue: a channel of depth num.
newSessionQueue(num) == [numSessions |-> num, s |-> <<>>]

\* insert's capacity test.
\* (QueueFullLax: a test that would let one session more in.)
QueueFullLax(len, n) == len > n
QueueFull(len, n) == len >= n

\* A send on the channel with no receiver waiting: the value goes to the tail.
ChanPut(buf, s) == Append(buf, s)

\* A receive from a non-empty buffer takes the value at the head ...
\* (ChanFrontLast: a stack, which would take the newest.)
ChanFrontLast(buf) == buf[Len(buf)]
ChanFront(buf) == Head(buf)

\* ... and leaves the rest.
\* (ChanRestPeek: a receive that would leave the value in the buffer.)
ChanRestPeek(buf) == buf
ChanRest(buf) == Tail(buf)

\* A send with receivers waiting hands the value to the one that blocked first.
\* (NextWaiterLast: a wait queue that would serve the newest receiver.)
NextWaiterLast(w) == w[Len(w)]
NextWaiter(w) == Head(w)

RemoveWaiter(w, p) == SelectSeq(w, LAMBDA x : x # p)

\* The deferred release: where a function goes when its body ends with
\* kind "ok" (return), "err" (error return) or "panic".
\* (ExitToNoDeferOnErr, ExitToNoDeferOnPanic: a release written at the end of
\* the body instead of deferred would be skipped on these exits.)
ExitToNoDeferOnErr(kind) == IF kind = "ok" THEN "release" ELSE "done"
ExitToNoDeferOnPanic(kind) == IF kind = "panic" THEN "done" ELSE "release"
ExitTo(kind) == "release"

\* Where a process continues once getHandle has returned.
AfterAcquire(p) == IF p = 0 THEN "symkeys" ELSE "body"

\* The session object OpenSession returns in iteration n of the loop.
\* (NewSessionIdSame: a token that would return one session object each time.)
NewSessionIdSame(n) == 1
NewSessionId(n) == n + 1

\* The loop of openSessions continues with Login / insert only without an error.
AfterOpen(ok) == IF ok THEN "login" ELSE "fail"
\* (AfterLoginIgnoreErr: a loop that would not test Login's error.)
AfterLoginIgnoreErr(ok) == "enqueue"
AfterLogin(ok) == IF ok THEN "enqueue" ELSE "fail"

\* ------------------------------------------------------------------ NewHSM
Fail0 == /\ pc' = [pc EXCEPT ![0] = "done"]
         /\ ret' = "Internal"

\* pk11.Load
Load ==
    /\ pc[0] = "load"
    /\ \E ok \in BOOLEAN :
          IF ok THEN pc' = [pc EXCEPT ![0] = "tokens"] /\ ret' = ret
                ELSE Fail0
    /\ UNCHANGED <<cfg, tok, sessState, q, recvq, hsm, i, held, handle, relCnt,
                   waited, res, callers, observed, prev, db, resp>>

\* mod.Tokens
Tokens ==
    /\ pc[0] = "tokens"
    /\ \E ok \in BOOLEAN :
          IF ok THEN pc' = [pc EXCEPT ![0] = "slot"] /\ ret' = ret
                ELSE Fail0
    /\ UNCHANGED <<cfg, tok, sessState, q, recvq, hsm, i, held, handle, relCnt,
                   waited, res, callers, observed, prev, db, resp>>

\* the slot test, then newSessionQueue
SlotCheck ==
    /\ pc[0] = "slot"
    /\ IF cfg.SlotID >= tok.n
          THEN Fail0 /\ UNCHANGED <<q, i>>
          ELSE /\ q' = newSessionQueue(cfg.NumSessions)
               /\ i' = 0
               /\ pc' = [pc EXCEPT ![0] = "open"]
               /\ ret' = ret
    /\ UNCHANGED <<cfg, tok, sessState, recvq, hsm, held, handle, relCnt,
                   waited, res, callers, observed, prev, db, resp>>

\* the loop test and toks[tokSlot].OpenSession(); at the loop's end
\* openSessions returns the queue and NewHSM builds the HSM struct
OpenSession ==
    /\ pc[0] = "open"
    /\ IF i >= q.numSessions
          THEN /\ hsm' = [SymmetricKeys |-> EmptyMap, PrivateKeys |-> EmptyMap]
               /\ pc' = [pc EXCEPT ![0] = "acquire"]
               /\ i' = 0
               /\ UNCHANGED <<sessState, ret>>
          ELSE IF cfg.SlotID < 0
          THEN \* toks[tokSlot] with a negative index: a run-time panic
               /\ pc' = [pc EXCEPT ![0] = "done"]
               /\ ret' = "panic"
               /\ UNCHANGED <<sessState, hsm, i>>
          ELSE \E ok \in BOOLEAN :
               IF AfterOpen(ok) = "login"
                  THEN /\ sessState' = [sessState EXCEPT ![NewSessionId(i)] = "opened"]
                       /\ pc' = [pc EXCEPT ![0] = "login"]
                       /\ UNCHANGED <<ret, hsm, i>>
                  ELSE Fail0 /\ UNCHANGED <<sessState, hsm, i>>
    /\ UNCHANGED <<cfg, tok, q, recvq, held, handle, relCnt, waited, res, callers,
                   observed, prev, db, resp>>

\* s.Login(pk11.NormalUser, hsmPW)
Login ==
    /\ pc[0] = "login"
    /\ \E ok \in BOOLEAN :
          /\ sessState' = IF ok THEN [sessState EXCEPT ![NewSessionId(i)] = "loggedin"]
                                ELSE sessState
          /\ IF AfterLogin(ok) = "enqueue"
                THEN pc' = [pc EXCEPT ![0] = "enqueue"] /\ ret' = ret
                ELSE Fail0
    /\ UNCHANGED <<cfg, tok, q, recvq, hsm, i, held, handle, relCnt, waited, res,
                   callers, observed, prev, db, resp>>

\* sessions.insert(s) in the loop of openSessions
Enqueue ==
    /\ pc[0] = "enqueue"
    /\ IF QueueFull(Len(q.s), q.numSessions)
          THEN Fail0 /\ UNCHANGED <<q, i>>
          ELSE /\ q' = [q EXCEPT !.s = ChanPut(q.s, NewSessionId(i))]
               /\ i' = i + 1
               /\ pc' = [pc EXCEPT ![0] = "open"]
               /\ ret' = ret
    /\ UNCHANGED <<cfg, tok, sessState, recvq, hsm, held, handle, relCnt,
                   waited, res, callers, observed, prev, db, resp>>

\* getKeyIDByLabel: FindKeyByLabel, then UID.  o is what the HSM answers:
\* "ok", "findErr" (FindKeyByLabel fails), "uidErr" (UID fails), "nil" (no ID).
KeyOutcomes == {"ok", "findErr", "uidErr", "nil"}
\* (getKeyIDByLabelAnyObject: a lookup that would not need the object to exist.)
getKeyIDByLabelAnyObject(t, class, label, o) ==
    IF o = "ok" THEN [err |-> "none", id |-> UID(label)] ELSE [err |-> "HSM", id |-> 0]
getKeyIDByLabel(t, class, label, o) ==
    IF label \notin t[class] \/ o = "findErr" THEN [err |-> "HSM", id |-> 0]
    ELSE IF o = "uidErr" THEN [err |-> "HSM", id |-> 0]
    ELSE IF o = "nil" THEN [err |-> "Internal", id |-> 0]
    ELSE [err |-> "none", id |-> UID(label)]

\* the loop over cfg.SymmetricKeys
LookupSym ==
    /\ pc[0] = "symkeys"
    /\ IF i >= Len(cfg.SymmetricKeys)
          THEN /\ pc' = [pc EXCEPT ![0] = "privkeys"]
               /\ i' = 0
               /\ UNCHANGED <<hsm, ret>>
          ELSE \E o \in KeyOutcomes :
               LET key == cfg.SymmetricKeys[i + 1]
                   r == getKeyIDByLabel(tok, "secret", key, o)
               IN IF r.err # "none"
                     THEN /\ ret' = "Internal"
                          /\ pc' = [pc EXCEPT ![0] = ExitTo("err")]
                          /\ UNCHANGED <<hsm, i>>
                     ELSE /\ hsm' = [hsm EXCEPT !.SymmetricKeys = MapPut(@, key, r.id)]
                          /\ i' = i + 1
                          /\ UNCHANGED <<pc, ret>>
    /\ UNCHANGED <<cfg, tok, sessState, q, recvq, held, handle, relCnt,
                   waited, res, callers, observed, prev, db, resp>>

\* the loop over cfg.PrivateKeys, and the final return
LookupPriv ==
    /\ pc[0] = "privkeys"
    /\ IF i >= Len(cfg.PrivateKeys)
          THEN /\ ret' = "hsm"
               /\ pc' = [pc EXCEPT ![0] = ExitTo("ok")]
               /\ UNCHANGED <<hsm, i>>
          ELSE \E o \in KeyOutcomes :
               LET key == cfg.PrivateKeys[i + 1]
                   r == getKeyIDByLabel(tok, "private", key, o)
               IN IF r.err # "none"
                     THEN /\ ret' = "Internal"
                          /\ pc' = [pc EXCEPT ![0] = ExitTo("err")]
                          /\ UNCHANGED <<hsm, i>>
                     ELSE /\ hsm' = [hsm EXCEPT !.PrivateKeys = MapPut(@, key, r.id)]
                          /\ i' = i + 1
                          /\ UNCHANGED <<pc, ret>>
    /\ UNCHANGED <<cfg, tok, sessState, q, recvq, held, handle, relCnt,
                   waited, res, callers, observed, prev, db, resp>>

\* --------------------------------------------------- getHandle and release
\* s := <-q.s
GetHandle(p) ==
    /\ pc[p] = "acquire"
    /\ IF q.s # <<>>
          THEN /\ held' = [held EXCEPT ![p] = ChanFront(q.s)]
               /\ handle' = [handle EXCEPT ![p] = ChanFront(q.s)]
               /\ q' = [q EXCEPT !.s = ChanRest(q.s)]
               /\ pc' = [pc EXCEPT ![p] = AfterAcquire(p)]
               /\ recvq' = recvq
               /\ waited' = waited
          ELSE /\ recvq' = Append(recvq, p)
               /\ pc' = [pc EXCEPT ![p] = "parked"]
               /\ waited' = [waited EXCEPT ![p] = TRUE]
               /\ UNCHANGED <<held, handle, q>>
    /\ UNCHANGED <<cfg, tok, sessState, hsm, ret, i, relCnt, res, callers, observed,
                   prev, db, resp>>

\* release(): q.insert(s) up to its capacity test; an error is dropped
ReleaseCheck(p) ==
    /\ pc[p] = "release"
    /\ relCnt' = [relCnt EXCEPT ![p] = @ + 1]
    /\ IF QueueFull(Len(q.s), q.numSessions)
          THEN /\ pc' = [pc EXCEPT ![p] = "done"]
               /\ held' = [held EXCEPT ![p] = 0]
          ELSE /\ pc' = [pc EXCEPT ![p] = "send"]
               /\ held' = held
    /\ UNCHANGED <<cfg, tok, sessState, q, recvq, hsm, ret, i, handle, waited, res,
                   callers, observed, prev, db, resp>>

\* q.s <- s: blocks while the buffer is full and no receiver waits
ReleaseSend(p) ==
    /\ pc[p] = "send"
    /\ recvq # <<>> \/ Len(q.s) < q.numSessions
    /\ IF recvq # <<>>
          THEN LET w == NextWaiter(recvq) IN
               /\ held' = [held EXCEPT ![p] = 0, ![w] = handle[p]]
               /\ handle' = [handle EXCEPT ![w] = handle[p]]
               /\ pc' = [pc EXCEPT ![p] = "done", ![w] = AfterAcquire(w)]
               /\ recvq' = RemoveWaiter(recvq, w)
               /\ q' = q
          ELSE /\ q' = [q EXCEPT !.s = ChanPut(q.s, handle[p])]
               /\ held' = [held EXCEPT ![p] = 0]
               /\ pc' = [pc EXCEPT ![p] = "done"]
               /\ UNCHANGED <<handle, recvq>>
    /\ UNCHANGED <<cfg, tok, sessState, hsm, ret, i, relCnt, waited, res, callers, observed,
                   prev, db, resp>>

\* ----------------------------------------------------------------- callers
\* A goroutine calls a public operation of the HSM that NewHSM returned; the
\* first statement of each of them is getHandle.
Call(p) ==
    /\ p \in callers
    /\ pc[p] = "idle"
    /\ pc[0] = "done" /\ ret = "hsm"
    /\ pc' = [pc EXCEPT ![p] = "acquire"]
    /\ UNCHANGED <<cfg, tok, sessState, q, recvq, hsm, ret, i, held, handle, relCnt,
                   waited, res, callers, observed, prev, db, resp>>

\* ------------------------------------------------- the public operations
\* The body of each operation as a function of its input, of the HSM struct h,
\* of the token t and of what the HSM answers.  The HSM's answers are a fault
\* f = [at, kind]: the call number f.at of the run (0: none) fails ("err") or
\* answers with a value of another shape ("alt": a key of another type).
\* A run is [op, in, exit, code, log, out, gen, des]: how the body ended
\* ("ok", "err", "panic"), the class of the error, the HSM primitives issued
\* in order, the value returned, and the key pairs generated and destroyed
\* on the token (by position in params).
Ops == {"ExecuteCmd", "DeriveAndWrapTransportSecret", "VerifySession",
        "GenerateRandom", "GenerateKeyPairAndCert", "GenerateSymmetricKeys",
        "EndorseCert"}

ExitKinds == {"ok", "err", "panic"}

Fails(f, n) == f.at = n /\ f.kind = "err"
Alt(f, n) == f.at = n /\ f.kind = "alt"

Run(op, in, exit, code, log, out, gen, des) ==
    [op |-> op, in |-> in, exit |-> exit, code |-> code, log |-> log, out |-> out,
     gen |-> gen, des |-> des, sess |-> 0]
RunErr(op, in, code, log) == Run(op, in, "err", code, log, None, {}, {})
RunOk(op, in, log, out) == Run(op, in, "ok", "OK", log, out, {}, {})

\* ExecuteCmd: cmd is the caller's function; in.cmd is how it ends.
ExecuteCmd(in) ==
    Run("ExecuteCmd", in, in.cmd,
        CASE in.cmd = "ok" -> "OK" [] in.cmd = "err" -> "Cmd" [] OTHER -> "Panic",
        <<"cmd">>, None, {}, {})

\* deriveTransportSecret, from call number n on.
deriveTransportSecret(h, in, f, n, log) ==
    IF "KT" \notin DOMAIN h.SymmetricKeys
       THEN [err |-> "Internal", log |-> log, key |-> None]
    ELSE IF Fails(f, n)
       THEN [err |-> "HSM", log |-> Append(log, "FindSecretKey"), key |-> None]
    ELSE IF Fails(f, n + 1)
       THEN [err |-> "HSM", log |-> log \o <<"FindSecretKey", "HKDFDeriveAES">>,
             key |-> None]
    ELSE [err |-> "none", log |-> log \o <<"FindSecretKey", "HKDFDeriveAES">>,
          key |-> [ikm |-> h.SymmetricKeys["KT"], hash |-> "SHA256",
                   salt |-> in.deviceId, info |-> "transport key", bits |-> 128]]

\* global.WrapAES(transport): the wrapped key and the IV it was wrapped with.
WrapAES(under, key) ==
    [ciphertext |-> [wrapped |-> key, under |-> under], iv |-> [ivOf |-> key]]

\* ciphertext, _, err := global.WrapAES(transport); return ciphertext, err
Wrapped(w) == [ciphertext |-> w.ciphertext]

DeriveAndWrapTransportSecret(h, in, f) ==
    LET op == "DeriveAndWrapTransportSecret" IN
    IF "KG" \notin DOMAIN h.SymmetricKeys THEN RunErr(op, in, "Internal", <<>>)
    ELSE IF Fails(f, 1) THEN RunErr(op, in, "HSM", <<"FindSecretKey">>)
    ELSE LET d == deriveTransportSecret(h, in, f, 2, <<"FindSecretKey">>) IN
         IF d.err # "none" THEN RunErr(op, in, d.err, d.log)
         ELSE IF Fails(f, 4) THEN RunErr(op, in, "HSM", Append(d.log, "WrapAES"))
         ELSE RunOk(op, in, Append(d.log, "WrapAES"),
                    Wrapped(WrapAES(h.SymmetricKeys["KG"], d.key)))

VerifySession(h, in, f) ==
    LET op == "VerifySession" IN
    IF "KCAPriv" \notin DOMAIN h.PrivateKeys THEN RunErr(op, in, "Internal", <<>>)
    ELSE IF Fails(f, 1) THEN RunErr(op, in, "Internal", <<"FindPrivateKey">>)
    ELSE RunOk(op, in, <<"FindPrivateKey">>, None)

GenerateRandom(in, f) ==
    LET op == "GenerateRandom" IN
    IF Fails(f, 1) THEN RunErr(op, in, "HSM", <<"GenerateRandom">>)
    ELSE RunOk(op, in, <<"GenerateRandom">>, [len |-> in.length])

\* return nil, fmt.Errorf(...) inside the loop: the certs built so far are
\* not returned.
\* (CertsOnErrorPartial: a return that would hand out the certs built so far.)
CertsOnErrorPartial(certs) == IF certs = <<>> THEN None ELSE [certs |-> certs]
CertsOnError(certs) == None

\* The loop of GenerateKeyPairAndCert from parameter k on; n HSM calls were made.
RECURSIVE KeyPairLoop(_, _, _, _, _, _, _)
KeyPairLoop(in, f, k, n, log, certs, des) ==
    LET op == "GenerateKeyPairAndCert" IN
    IF k > Len(in.params) THEN Run(op, in, "ok", "OK", log, [certs |-> certs], des, des)
    ELSE
    LET kp == in.params[k].KeyParams
        prim == IF kp = "RSA" THEN "GenerateRSA" ELSE "GenerateECDSA"
        l1 == Append(log, prim)
        l2 == Append(l1, "ExportKey")
        l3 == Append(l2, "WrapAES")
        l4 == Append(l3, "CreateCertificate")
        l5 == Append(l4, "DestroyKeyPairObject")
        cert == [Cert |-> [template |-> in.params[k].Template, public |-> k,
                           kind |-> kp],
                 WrappedKey |-> k, Iv |-> k]
    IN
    IF kp \notin {"RSA", "EC"} THEN Run(op, in, "panic", "Panic", log, None, des, des)
    ELSE IF Fails(f, n + 1)
         THEN Run(op, in, "err", "Plain", l1, CertsOnError(certs), des, des)
    ELSE IF Fails(f, n + 2)
         THEN Run(op, in, "err", "Plain", l2, CertsOnError(certs), des \cup {k}, des)
    ELSE IF Fails(f, n + 3)
         THEN Run(op, in, "err", "Plain", l3, CertsOnError(certs), des \cup {k}, des)
    ELSE IF Fails(f, n + 4)
         THEN Run(op, in, "err", "Plain", l4, CertsOnError(certs), des \cup {k}, des)
    ELSE KeyPairLoop(in, f, k + 1, n + 4, l5, Append(certs, cert), des \cup {k})

GenerateKeyPairAndCert(h, in, f) ==
    LET op == "GenerateKeyPairAndCert" IN
    IF "KCAPriv" \notin DOMAIN h.PrivateKeys THEN RunErr(op, in, "Internal", <<>>)
    ELSE IF Fails(f, 1) THEN RunErr(op, in, "Internal", <<"FindPrivateKey">>)
    ELSE IF Fails(f, 2) THEN RunErr(op, in, "Internal", <<"FindPrivateKey", "Signer">>)
    ELSE IF "KG" \notin DOMAIN h.SymmetricKeys
         THEN RunErr(op, in, "Internal", <<"FindPrivateKey", "Signer">>)
    ELSE IF Fails(f, 3)
         THEN RunErr(op, in, "Internal", <<"FindPrivateKey", "Signer", "FindSecretKey">>)
    ELSE KeyPairLoop(in, f, 1, 3, <<"FindPrivateKey", "Signer", "FindSecretKey">>,
                     <<>>, {})

\* The seed a parameter selects.
\* (SeedLabelLow: a selection that would not look at the parameter.)
SeedLabelLow(p) == "LowSecKdfSeed"
SeedLabel(p) == IF p.UseHighSecuritySeed THEN "HighSecKdfSeed" ELSE "LowSecKdfSeed"

\* The loop of GenerateSymmetricKeys from parameter k on; n HSM calls were made.
RECURSIVE SymKeyLoop(_, _, _, _, _, _, _)
SymKeyLoop(h, in, f, k, n, log, keys) ==
    LET op == "GenerateSymmetricKeys" IN
    IF k > Len(in.params) THEN RunOk(op, in, log, [keys |-> keys])
    ELSE
    LET p == in.params[k]
        l1 == Append(log, "FindSecretKey")
        l2 == Append(l1, "HKDFDeriveAES")
        l3 == Append(l2, "ExportKey")
        \* cSHAKE128 reads as many bytes as were written: the length is kept
        key == [ikm |-> h.SymmetricKeys[SeedLabel(p)], hash |-> "SHA256",
                salt |-> p.Sku, info |-> p.Diversifier,
                len |-> p.SizeInBits \div 8,
                hashed |-> (p.KeyType = "HashedOtLcToken")]
    IN
    IF SeedLabel(p) \notin DOMAIN h.SymmetricKeys THEN RunErr(op, in, "Internal", log)
    ELSE IF Fails(f, n + 1) THEN RunErr(op, in, "Internal", l1)
    ELSE IF Fails(f, n + 2) THEN RunErr(op, in, "Internal", l2)
    ELSE IF Fails(f, n + 3) \/ Alt(f, n + 3) THEN RunErr(op, in, "Internal", l3)
    ELSE SymKeyLoop(h, in, f, k + 1, n + 3, l3, Append(keys, key))

GenerateSymmetricKeys(h, in, f) == SymKeyLoop(h, in, f, 1, 0, <<>>, <<>>)

SupportedAlgs == {"ECDSAWithSHA256", "ECDSAWithSHA384", "ECDSAWithSHA512"}

\* (oidFromSignatureAlgorithmOne: a table with one OID for the three.)
oidFromSignatureAlgorithmOne(alg) ==
    IF alg \in SupportedAlgs THEN [err |-> FALSE, oid |-> <<1, 2, 840, 10045, 4, 3, 2>>]
    ELSE [err |-> TRUE, oid |-> <<>>]
oidFromSignatureAlgorithm(alg) ==
    CASE alg = "ECDSAWithSHA256" -> [err |-> FALSE, oid |-> <<1, 2, 840, 10045, 4, 3, 2>>]
      [] alg = "ECDSAWithSHA384" -> [err |-> FALSE, oid |-> <<1, 2, 840, 10045, 4, 3, 3>>]
      [] alg = "ECDSAWithSHA512" -> [err |-> FALSE, oid |-> <<1, 2, 840, 10045, 4, 3, 4>>]
      [] OTHER -> [err |-> TRUE, oid |-> <<>>]

hashFromSignatureAlgorithm(alg) ==
    CASE alg = "ECDSAWithSHA256" -> [err |-> FALSE, hash |-> "SHA256"]
      [] alg = "ECDSAWithSHA384" -> [err |-> FALSE, hash |-> "SHA384"]
      [] alg = "ECDSAWithSHA512" -> [err |-> FALSE, hash |-> "SHA512"]
      [] OTHER -> [err |-> TRUE, hash |-> "none"]

\* What key.SignECDSA answers: the big-endian bytes of r and of s.
SignECDSA(f) ==
    IF f.at = 4 /\ f.kind = "high" THEN [rb |-> <<128, 1>>, sb |-> <<0, 0, 7>>]
    ELSE [rb |-> <<1, 2>>, sb |-> <<0>>]

\* big.Int.SetBytes, then asn1.Marshal of struct{R, S *big.Int}: each INTEGER
\* is the shortest two's-complement form of its value, the SEQUENCE holds both.
RECURSIVE StripZeros(_)
StripZeros(b) ==
    IF b = <<>> THEN <<>> ELSE IF Head(b) = 0 THEN StripZeros(Tail(b)) ELSE b
IntBytes(b) ==
    LET v == StripZeros(b) IN
    IF v = <<>> THEN <<0>> ELSE IF Head(v) >= 128 THEN <<0>> \o v ELSE v
DerInt(b) == <<2, Len(IntBytes(b))>> \o IntBytes(b)
MarshalSig(rb, sb) ==
    LET body == DerInt(rb) \o DerInt(sb) IN <<48, Len(body)>> \o body

\* asn1.BitString{Bytes: s, BitLength: len(s) * 8}
BitString(bytes) == [Bytes |-> bytes, BitLength |-> Len(bytes) * 8]

EndorseCert(t, in, f) ==
    LET op == "EndorseCert"
        sig == SignECDSA(f)
        id == getKeyIDByLabel(t, "private", in.KeyLabel,
                  IF Fails(f, 1) THEN "findErr" ELSE IF Fails(f, 2) THEN "uidErr"
                  ELSE IF Alt(f, 2) THEN "nil" ELSE "ok")
        l1 == <<"FindKeyByLabel">>
        l2 == <<"FindKeyByLabel", "UID">>
        l3 == <<"FindKeyByLabel", "UID", "FindPrivateKey">>
        l4 == <<"FindKeyByLabel", "UID", "FindPrivateKey", "SignECDSA">>
        h == hashFromSignatureAlgorithm(in.SignatureAlgorithm)
        o == oidFromSignatureAlgorithm(in.SignatureAlgorithm)
    IN
    IF id.err # "none"
       THEN RunErr(op, in, "Internal",
                   IF in.KeyLabel \notin t.private \/ Fails(f, 1) THEN l1 ELSE l2)
    ELSE IF Fails(f, 3) THEN RunErr(op, in, "Internal", l3)
    ELSE IF h.err THEN RunErr(op, in, "Internal", l3)
    ELSE IF Fails(f, 4) THEN RunErr(op, in, "Internal", l4)
    ELSE IF o.err THEN RunErr(op, in, "Internal", l4)
    ELSE RunOk(op, in, l4,
               [TBSCertificate |-> in.tbs, SignatureAlgorithm |-> o.oid,
                SignatureValue |-> BitString(MarshalSig(sig.rb, sig.sb)),
                hash |-> h.hash, key |-> id.id])

\* The inputs and the HSM answers the operations are run on.
RECURSIVE SeqsUpTo(_, _)
SeqsUpTo(S, n) ==
    IF n = 0 THEN {<<>>}
    ELSE LET shorter == SeqsUpTo(S, n - 1) IN
         shorter \cup {Append(s, x) : s \in {t \in shorter : Len(t) = n - 1}, x \in S}

KeyParamKinds == {"RSA", "EC", "Other"}
SigningParams == [KeyParams : KeyParamKinds, Template : {"T"}]
SymmetricKeygenParams ==
    [UseHighSecuritySeed : BOOLEAN, KeyType : {"Raw", "HashedOtLcToken"},
     SizeInBits : {128}, Sku : {"sku-a"}, Diversifier : {"div-1"}]
Algs == SupportedAlgs \cup {"SHA256WithRSA"}

KeyPairInputs == [params : SeqsUpTo(SigningParams, MaxParams)]
SymKeyInputs == [params : SeqsUpTo(SymmetricKeygenParams, MaxParams)]
EndorseInputs == [KeyLabel : {"KCAPriv", "KOther"}, SignatureAlgorithm : Algs,
                  tbs : {"tbs-1", "tbs-2"}]

Inputs(op) ==
    CASE op = "ExecuteCmd" -> [cmd : ExitKinds]
      [] op = "DeriveAndWrapTransportSecret" -> [deviceId : {"DEV-0001"}]
      [] op = "VerifySession" -> {None}
      [] op = "GenerateRandom" -> [length : {32}]
      [] op = "GenerateKeyPairAndCert" -> KeyPairInputs
      [] op = "GenerateSymmetricKeys" -> SymKeyInputs
      [] op = "EndorseCert" -> EndorseInputs

\* The number of HSM calls an operation makes on an input at most.
MaxCalls(op, in) ==
    CASE op = "ExecuteCmd" -> 0
      [] op = "DeriveAndWrapTransportSecret" -> 4
      [] op = "VerifySession" -> 1
      [] op = "GenerateRandom" -> 1
      [] op = "GenerateKeyPairAndCert" -> 3 + 4 * Len(in.params)
      [] op = "GenerateSymmetricKeys" -> 3 * Len(in.params)
      [] op = "EndorseCert" -> 4

\* The calls of an operation that can answer with a value of another shape:
\* ExportKey in GenerateSymmetricKeys, UID in EndorseCert.
AltCalls(op, in) ==
    CASE op = "GenerateSymmetricKeys" -> {3 * k : k \in 1..Len(in.params)}
      [] op = "EndorseCert" -> {2}
      [] OTHER -> {}

\* The calls that can answer with another value of the same shape: SignECDSA.
SigCalls(op, in) == IF op = "EndorseCert" THEN {4} ELSE {}

Faults(op, in) == [at : 0..MaxCalls(op, in), kind : {"err"}]
                      \cup [at : AltCalls(op, in), kind : {"alt"}]
                      \cup [at : SigCalls(op, in), kind : {"high"}]

RunOp(op, h, t, in, f) ==
    CASE op = "ExecuteCmd" -> ExecuteCmd(in)
      [] op = "DeriveAndWrapTransportSecret" -> DeriveAndWrapTransportSecret(h, in, f)
      [] op = "VerifySession" -> VerifySession(h, in, f)
      [] op = "GenerateRandom" -> GenerateRandom(in, f)
      [] op = "GenerateKeyPairAndCert" -> GenerateKeyPairAndCert(h, in, f)
      [] op = "GenerateSymmetricKeys" -> GenerateSymmetricKeys(h, in, f)
      [] op = "EndorseCert" -> EndorseCert(t, in, f)

\* Every run of a public operation on the HSM struct h.
RunsOf(op, h, t) ==
    UNION {{RunOp(op, h, t, in, f) : f \in Faults(op, in)} : in \in Inputs(op)}
Runs(h, t) == UNION {RunsOf(op, h, t) : op \in Ops}

\* ---------------------------------------------------------- configurations
FullSym == <<"KG", "KT", "HighSecKdfSeed", "LowSecKdfSeed">>
FullPriv == <<"KCAPriv">>
FullTok == [n |-> 1, secret |-> SymLabels, private |-> PrivLabels]

PoolCfgs == [SlotID : {-1, 0, 1}, NumSessions : 0..MaxSessions,
             SymmetricKeys : {FullSym}, PrivateKeys : {FullPriv}]
PoolToks == {FullTok, [FullTok EXCEPT !.secret = SymLabels \ {"KT"}],
             [FullTok EXCEPT !.private = {}]}

OpsCfgs == [SlotID : {0}, NumSessions : 1..MaxSessions,
            SymmetricKeys : {FullSym, <<"KG">>, <<>>}, PrivateKeys : {FullPriv, <<>>}]

Range(f) == {f[x] : x \in DOMAIN f}

\* The HSM struct NewHSM returns for a configuration, and the runs of the
\* operations on each of them, computed once.
HsmOf(c) == [SymmetricKeys |-> [l \in Range(c.SymmetricKeys) |-> UID(l)],
             PrivateKeys |-> [l \in Range(c.PrivateKeys) |-> UID(l)]]
Worlds == {<<HsmOf(c), t>> : c \in PoolCfgs \cup OpsCfgs, t \in PoolToks}
RunTable == [w \in Worlds |-> Runs(w[1], w[2])]
ExitTable == [w \in Worlds |-> {r.exit : r \in RunTable[w]}]

RunsNow == IF <<hsm, tok>> \in Worlds THEN RunTable[<<hsm, tok>>] ELSE Runs(hsm, tok)
ExitsNow == IF <<hsm, tok>> \in Worlds THEN ExitTable[<<hsm, tok>>]
            ELSE {r.exit : r \in Runs(hsm, tok)}

\* What a body leaves of the HSM struct: the operations read h.SymmetricKeys
\* and h.PrivateKeys and assign to neither.
\* (RegistryAfterCleared: an operation that would reset a map.)
RegistryAfterCleared(h) == [h EXCEPT !.PrivateKeys = EmptyMap]
RegistryAfter(h) == h

\* The session the body issues its primitives on: the local variable session
\* that getHandle returned, and the key objects found through it.
\* (SessionUsedFirst: a body that would use one fixed session.)
SessionUsedFirst(p) == 1
SessionUsed(p) == handle[p]

\* The body of the operation, from getHandle's return to the function's end.
Body(p) ==
    /\ pc[p] = "body"
    /\ hsm' = RegistryAfter(hsm)
    /\ IF p \in observed
          THEN \E r \in RunsNow :
                  /\ pc' = [pc EXCEPT ![p] = ExitTo(r.exit)]
                  /\ res' = [res EXCEPT ![p] = [r EXCEPT !.sess = SessionUsed(p)]]
          ELSE \E k \in ExitsNow :
                  /\ pc' = [pc EXCEPT ![p] = ExitTo(k)]
                  /\ res' = res
    /\ UNCHANGED <<cfg, tok, sessState, q, recvq, ret, i, held, handle, relCnt,
                   waited, callers, observed, prev, db, resp>>

\* The operation has returned to its caller.
Return(p) ==
    /\ p \in callers
    /\ pc[p] = "done"
    /\ pc' = [pc EXCEPT ![p] = "idle"]
    /\ held' = [held EXCEPT ![p] = 0]
    /\ handle' = [handle EXCEPT ![p] = 0]
    /\ relCnt' = [relCnt EXCEPT ![p] = 0]
    /\ waited' = [waited EXCEPT ![p] = FALSE]
    /\ res' = [res EXCEPT ![p] = NoRun]
    /\ prev' = [prev EXCEPT ![p] = IF @ = "off" THEN "off" ELSE res[p].exit]
    /\ UNCHANGED <<cfg, tok, sessState, q, recvq, hsm, ret, i, callers, observed, db, resp>>

\* A caller that kept the release closure calls it a second time.
ReleaseAgain(p) ==
    /\ p \in callers
    /\ pc[p] = "done"
    /\ handle[p] # 0
    /\ relCnt[p] = 1
    /\ pc' = [pc EXCEPT ![p] = "release"]
    /\ UNCHANGED <<cfg, tok, sessState, q, recvq, hsm, ret, i, held, handle, relCnt,
                   waited, res, callers, observed, prev, db, resp>>

\* ------------------------------------------------------- the proxy buffer
\* The store before any device is registered, and no call answered yet.
NoDevices == [d \in {} |-> "none"]
NoResponse == [status |-> "UNSPECIFIED", code |-> "none", exit |-> "none",
               DeviceId |-> "", validation |-> "none", inserts |-> 0,
               insert |-> "none",
               request |-> [Record |-> Nil], before |-> NoDevices]

\* DeviceRegistrationRequest: the record is a message field, so it can be
\* absent (a nil pointer in the generated Go struct).
DeviceIds == {"dev-1", "dev-2", "dev-3"}
DeviceData == {"data-a", "data-b"}
Records == [DeviceId : DeviceIds, Data : DeviceData]
Requests == [Record : Records \cup {Nil}]

\* validators.ValidateDeviceRegistrationRequest: a request without a record
\* fails; for a request with a record the verdict v is the validator's.
ValidateDeviceRegistrationRequest(request, v) ==
    IF request.Record = Nil THEN [err |-> TRUE] ELSE [err |-> ~v]

\* db.InsertDevice: refuses a device that is still in the buffer with other
\* data, or fails (fail) for a reason of the store's; else records the device.
InsertDevice(d, record, fail) ==
    IF fail \/ (record.DeviceId \in DOMAIN d /\ d[record.DeviceId] # record.Data)
    THEN [err |-> TRUE, db |-> d]
    ELSE [err |-> FALSE,
          db |-> [x \in DOMAIN d \cup {record.DeviceId} |->
                     IF x = record.DeviceId THEN record.Data ELSE d[x]]]

\* The return after a failed InsertDevice.
\* (InsertFailedBufferFull: an answer that would use the status BUFFER_FULL.)
InsertFailedBufferFull(response) ==
    [response EXCEPT !.status = "BUFFER_FULL", !.code = "Internal", !.exit = "err",
                     !.validation = "passed", !.inserts = 1, !.insert = "err"]
InsertFailed(response) ==
    [response EXCEPT !.status = "BAD_REQUEST", !.code = "Internal", !.exit = "err",
                     !.validation = "passed", !.inserts = 1, !.insert = "err"]

\* server.RegisterDevice, the whole handler on one request.
RegisterDevice(request, v, fail) ==
    LET called == [NoResponse EXCEPT !.request = request, !.before = db] IN
    IF request.Record = Nil
    THEN \* request.Record.DeviceId on a nil record: the handler panics
         /\ resp' = [called EXCEPT !.exit = "panic"]
         /\ db' = db
    ELSE LET response == [called EXCEPT !.DeviceId = request.Record.DeviceId]
             valid == ValidateDeviceRegistrationRequest(request, v)
             ins == InsertDevice(db, request.Record, fail)
         IN IF valid.err
            THEN /\ resp' = [response EXCEPT !.status = "BAD_REQUEST",
                                             !.code = "InvalidArgument",
                                             !.exit = "err", !.validation = "failed"]
                 /\ db' = db
            ELSE IF ins.err
            THEN /\ resp' = InsertFailed(response)
                 /\ db' = ins.db
            ELSE /\ resp' = [response EXCEPT !.status = "SUCCESS", !.code = "OK",
                                             !.exit = "ok", !.validation = "passed",
                                             !.inserts = 1, !.insert = "ok"]
                 /\ db' = ins.db

\* ---------------------------------------------------------- specifications
InitWith(cfgs, toks, cs, obs, tr) ==
    /\ cfg \in cfgs
    /\ tok \in toks
    /\ sessState = [s \in Sessions |-> "unopened"]
    /\ q = Nil
    /\ recvq = <<>>
    /\ hsm = Nil
    /\ ret = "none"
    /\ i = 0
    /\ pc = [p \in Procs |-> IF p = 0 THEN "load" ELSE "idle"]
    /\ held = [p \in Procs |-> 0]
    /\ handle = [p \in Procs |-> 0]
    /\ relCnt = [p \in Procs |-> 0]
    /\ waited = [p \in Procs |-> FALSE]
    /\ res = [p \in Procs |-> NoRun]
    /\ callers = cs
    /\ observed = obs
    /\ prev = [p \in Procs |-> IF p \in tr THEN "none" ELSE "off"]
    /\ db = NoDevices
    /\ resp = NoResponse

Init == InitWith(PoolCfgs, PoolToks, AllCallers, {}, {})

\* One observed caller beside one other, over more configurations.
InitOps == InitWith(OpsCfgs, {FullTok}, {1, 2}, {1}, {})

Step(p) ==
    \/ GetHandle(p)
    \/ ReleaseCheck(p)
    \/ ReleaseSend(p)
    \/ Call(p)
    \/ Body(p)
    \/ Return(p)

NewHSM ==
    \/ Load
    \/ Tokens
    \/ SlotCheck
    \/ OpenSession
    \/ Login
    \/ Enqueue
    \/ LookupSym
    \/ LookupPriv

Next == NewHSM \/ \E p \in Procs : Step(p)

\* The goroutines as the operations of this package use the queue.
Spec == Init /\ [][Next]_vars

\* One caller whose runs are recorded, beside one other caller.
SpecOps == InitOps /\ [][Next]_vars

\* Two callers of getHandle that may call the release closure twice.
InitDR ==
    InitWith([SlotID : {0}, NumSessions : 0..MaxSessions, SymmetricKeys : {FullSym},
              PrivateKeys : {FullPriv}], {FullTok}, {1, 2}, {}, {})
NextDR == Next \/ \E p \in Procs : ReleaseAgain(p)
SpecDR == InitDR /\ [][NextDR]_vars

\* The scheduler runs every calling goroutine that can take a step, and every
\* HSM call returns; the token is the fully provisioned one in slot 0.
InitFair ==
    InitWith([SlotID : {0}, NumSessions : 0..MaxSessions, SymmetricKeys : {FullSym},
              PrivateKeys : {FullPriv}], {FullTok}, AllCallers, {}, {})
FairSpec == InitFair /\ [][Next]_vars /\ \A p \in AllCallers : WF_vars(Step(p))

\* One caller whose runs and previous outcome are recorded, beside one other,
\* on the fully provisioned token.
InitErr ==
    InitWith([SlotID : {0}, NumSessions : 1..MaxSessions, SymmetricKeys : {FullSym},
              PrivateKeys : {FullPriv}], {FullTok}, {1, 2}, {1}, {1})
SpecErr == InitErr /\ [][Next]_vars

\* NewHSM on every session count, with and without key labels configured,
\* its goroutine scheduled again and again; one caller beside it.
InitNew ==
    InitWith([SlotID : {-1, 0, 1}, NumSessions : 0..MaxSessions,
              SymmetricKeys : {FullSym, <<>>}, PrivateKeys : {FullPriv, <<>>}],
             {FullTok}, {1}, {}, {})
FairNewSpec == InitNew /\ [][Next]_vars /\ WF_vars(NewHSM \/ Step(0))

\* The proxy buffer's server alone, answering one request after another.
InitPB ==
    InitWith([SlotID : {0}, NumSessions : {1}, SymmetricKeys : {FullSym},
              PrivateKeys : {FullPriv}], {FullTok}, {}, {}, {})
NextPB ==
    \E request \in Requests, v \in BOOLEAN, fail \in BOOLEAN :
        /\ RegisterDevice(request, v, fail)
        /\ UNCHANGED <<cfg, tok, sessState, q, recvq, hsm, ret, i, pc, held, handle,
                       relCnt, waited, res, callers, observed, prev>>
SpecPB == InitPB /\ [][NextPB]_vars

\* ------------------------------------------------------------------ claims
Buf == IF q = Nil THEN <<>> ELSE q.s
N == IF q = Nil THEN 0 ELSE q.numSessions
PoolFilled == hsm # Nil

\* The operations that hold a session: between getHandle's return and the end
\* of release.
Loaned == {p \in Procs : held[p] # 0 /\ pc[p] \notin {"idle", "done"}}
NoDuplicates(seq) == \A a, b \in DOMAIN seq : a # b => seq[a] # seq[b]

\* C1: once openSessions has filled the pool, the number of sessions loaned
\* out plus the number of sessions in the queue is numSessions, and the queue
\* holds between 0 and numSessions sessions, in every interleaving of the
\* operations' getHandle and (single) release.
C1_PoolConservation ==
    PoolFilled =>
        /\ Cardinality(Loaned) + Len(Buf) = N
        /\ Len(Buf) >= 0 /\ Len(Buf) <= N

C1_Witness ==
    /\ PoolFilled
    /\ \E p1, p2 \in callers :
          /\ pc[p1] = "body" /\ held[p1] # 0
          /\ pc[p2] = "done" /\ relCnt[p2] = 1
    /\ Len(Buf) >= 1

\* C2: a session is loaned to at most one operation, is never loaned and in
\* the queue at once, and is never in the queue twice; the session an
\* operation issues its primitives on is the one loaned to it.
C2_MutualExclusion ==
    /\ \A p1, p2 \in Procs : (p1 # p2 /\ held[p1] # 0) => held[p1] # held[p2]
    /\ \A p1 \in Procs : held[p1] # 0 => held[p1] \notin Range(Buf)
    /\ NoDuplicates(Buf)
    /\ \A p1 \in Procs : pc[p1] \in {"body", "symkeys", "privkeys"} =>
           (held[p1] # 0 /\ handle[p1] = held[p1])

C2_Witness ==
    \E p1, p2 \in callers :
        /\ p1 # p2
        /\ pc[p1] = "body" /\ pc[p2] = "body"
        /\ held[p1] # 0 /\ held[p2] # 0 /\ held[p1] # held[p2]

\* C3: in NewHSM and in each public operation, the release closure of an
\* acquisition is called exactly once before the operation ends, however the
\* body ends (return, error return, panic), and not before the body ends.
C3_ReleaseDiscipline ==
    \A p \in Procs :
        /\ relCnt[p] <= 1
        /\ (pc[p] = "done" /\ handle[p] # 0) => relCnt[p] = 1
        /\ pc[p] \in {"acquire", "parked", "body", "symkeys", "privkeys"} => relCnt[p] = 0

C3_Witness ==
    /\ pc[1] = "done" /\ relCnt[1] = 1
    /\ res[1].op = "GenerateKeyPairAndCert" /\ res[1].exit = "panic"
    /\ pc[0] = "done" /\ relCnt[0] = 1

\* C4 (as claimed): a second call of the release closure of one acquisition
\* never makes loaned + queued exceed numSessions and never puts a session in
\* the queue twice or beside its loan.  It fails under SpecDR: insert refuses
\* a session only when the queue is full, so a second release after another
\* process took the session queues it while it is loaned.
C4_NoDoubleReleaseInflation ==
    PoolFilled =>
        /\ Cardinality(Loaned) + Len(Buf) <= N
        /\ NoDuplicates(Buf)
        /\ \A p \in Loaned : held[p] \notin Range(Buf)

\* C5: at most numSessions operations hold a session (and so run HSM
\* primitives) at once; a goroutine is blocked only in getHandle, and only
\* while the queue is empty and all numSessions sessions are loaned; the send
\* of a release never has to wait.
C5_CapacityBound ==
    PoolFilled =>
        /\ Cardinality(Loaned) <= N
        /\ Cardinality({p \in Procs : pc[p] \in {"body", "symkeys", "privkeys"}}) <= N
        /\ \A p \in Procs : pc[p] = "parked" <=> p \in Range(recvq)
        /\ recvq # <<>> => (Buf = <<>> /\ Cardinality(Loaned) = N)
        /\ \A p \in Procs : pc[p] = "send" => (recvq # <<>> \/ Len(Buf) < N)

C5_Witness ==
    /\ N >= 1
    /\ recvq # <<>>
    /\ Cardinality({p \in callers : pc[p] = "body"}) = N

\* C6: the queue hands sessions out in the order they were put back, and the
\* goroutines blocked in getHandle are served in the order they blocked: a
\* session goes to the first of them, never to a later one nor to a newcomer.
C6_FifoStep ==
    /\ (recvq' # <<>>) => (Buf' = <<>>)
    /\ \A p \in Procs :
          (held[p] = 0 /\ held'[p] # 0) =>
             IF pc[p] = "parked"
                THEN recvq # <<>> /\ p = Head(recvq) /\ recvq' = Tail(recvq)
                ELSE /\ Buf # <<>> /\ held'[p] = Head(Buf) /\ Buf' = Tail(Buf)
                     /\ recvq = <<>>
    /\ \A p \in Procs :
          (pc[p] # "parked" /\ pc'[p] = "parked") => recvq' = Append(recvq, p)
    /\ Len(Buf') > Len(Buf) => \E s \in Sessions : Buf' = Append(Buf, s)
    /\ Len(Buf') = Len(Buf) => Buf' = Buf
    /\ Len(recvq') = Len(recvq) => recvq' = recvq

C6_Fifo == [][C6_FifoStep]_vars

C6_Witness ==
    /\ Len(recvq) >= 1
    /\ \E p \in callers : pc[p] = "body" /\ waited[p]

\* C7: with numSessions >= 1 and more callers than sessions, under fair
\* scheduling no caller stays for ever inside an operation (waiting in
\* getHandle, in its body or in its release): every caller is again and again
\* outside one, and an operation is left only at its end, with its session
\* released. So every caller that calls an operation gets a session and
\* completes, and the callers never deadlock.
C7_Progress ==
    \A p \in AllCallers :
        []<>(pc[p] = "idle" \/ (pc[p] = "done" /\ relCnt[p] = 1))

C7_Witness ==
    /\ N >= 1
    /\ Cardinality(callers) > N
    /\ \E p \in callers : pc[p] = "done" /\ waited[p] /\ relCnt[p] = 1

\* C8: every session in the queue or loaned was opened and logged in.
C8_AuthenticatedOnly ==
    \A s \in Range(Buf) \cup ({held[p] : p \in Procs} \ {0}) :
        sessState[s] = "loggedin"

C8_Witness ==
    /\ \E p \in callers : pc[p] = "body" /\ sessState[held[p]] = "loggedin"
    /\ Len(Buf) >= 1
    /\ \A s \in Range(Buf) : sessState[s] = "loggedin"

\* C9 (as claimed): when GenerateKeyPairAndCert has returned, every key pair
\* it generated on the token has been destroyed.  It fails under SpecOps: the
\* error returns after the generation leave the key pair on the token.
C9_EphemeralKeysDestroyed ==
    \A p \in observed :
        (pc[p] = "done" /\ res[p].op = "GenerateKeyPairAndCert") =>
            res[p].gen = res[p].des

\* C10 (as claimed): EndorseCert with an unsupported SignatureAlgorithm fails
\* with an invalid-argument error and has issued no HSM primitive.  It fails
\* under SpecOps: the key is looked up before the algorithm is tested, and the
\* error is an internal one.
C10_AlgorithmGate ==
    \A p \in observed :
        (res[p].op = "EndorseCert"
            /\ res[p].in.SignatureAlgorithm \notin SupportedAlgs) =>
                /\ res[p].exit = "err"
                /\ res[p].code = "InvalidArgument"
                /\ res[p].log = <<>>

\* NewHSM has returned the HSM: the public operations can be called.
Serving == pc[0] = "done" /\ ret = "hsm"

\* The sessions that are in the queue or loaned to an operation.
InPool == Range(Buf) \cup {held[p] : p \in Loaned}

\* C11: an operation that returns an error leaves the pool whole: every one of
\* the numSessions sessions is in the queue or loaned to a running operation,
\* the session of an operation that ended with an error among them, so a later
\* operation acquires a session as before; no sequence of failing operations
\* lowers the number of sessions.
C11_ErrorsDoNotPoison ==
    Serving =>
        /\ InPool = 1..N
        /\ Len(Buf) + Cardinality(Loaned) = N
        /\ \A p \in observed :
              (pc[p] = "done" /\ res[p].exit = "err") => handle[p] \in InPool
        /\ \A p \in observed :
              (prev[p] = "err" /\ pc[p] = "idle" /\ Loaned = {}) => Len(Buf) = N

C11_Witness ==
    /\ prev[1] = "err"
    /\ pc[1] = "done" /\ relCnt[1] = 1
    /\ res[1].op = "GenerateSymmetricKeys" /\ res[1].exit = "ok"
    /\ Len(res[1].out.keys) >= 1
    /\ Loaned = {} /\ Len(Buf) = N

\* C12: once NewHSM has returned the HSM, no step of any operation, successful
\* or failing, adds, removes or changes an entry of SymmetricKeys or
\* PrivateKeys.
C12_RegistryStep == Serving => (hsm' = hsm /\ Serving')
C12_RegistryReadOnly == [][C12_RegistryStep]_vars

C12_Witness ==
    /\ Serving
    /\ DOMAIN hsm.SymmetricKeys # {} /\ DOMAIN hsm.PrivateKeys # {}
    /\ pc[1] = "done" /\ res[1].exit = "err"
    /\ res[1].op = "GenerateKeyPairAndCert" /\ res[1].gen # {}
    /\ pc[2] = "body"

\* A label of the configuration has no key object of its class on the token.
MissingLabel ==
    \/ ~(Range(cfg.SymmetricKeys) \subseteq tok.secret)
    \/ ~(Range(cfg.PrivateKeys) \subseteq tok.private)

\* C13: with a configured label missing on the token, NewHSM never returns an
\* HSM, and the lookup that misses the label ends it with an internal error;
\* when NewHSM returns an HSM, its registry maps exactly the configured labels,
\* each to the UID of its key object.
C13_MissingLabelAtStartup ==
    /\ (pc[0] = "done" /\ MissingLabel) => ret # "hsm"
    /\ (pc[0] = "done" /\ MissingLabel /\ handle[0] # 0) => ret = "Internal"
    /\ Serving =>
          /\ ~MissingLabel
          /\ DOMAIN hsm.SymmetricKeys = Range(cfg.SymmetricKeys)
          /\ DOMAIN hsm.PrivateKeys = Range(cfg.PrivateKeys)
          /\ \A l \in DOMAIN hsm.SymmetricKeys : hsm.SymmetricKeys[l] = UID(l)
          /\ \A l \in DOMAIN hsm.PrivateKeys : hsm.PrivateKeys[l] = UID(l)

C13_Witness ==
    /\ "KT" \notin tok.secret
    /\ pc[0] = "done" /\ ret = "Internal"
    /\ handle[0] # 0 /\ relCnt[0] = 1
    /\ DOMAIN hsm.SymmetricKeys = {"KG"}

\* openSessions has returned an error: NewHSM ended before it built the HSM.
ConstructionFailed == pc[0] = "done" /\ ret = "Internal" /\ hsm = Nil

\* C14 (as claimed): when OpenSession, Login or insert fails in openSessions,
\* construction ends with an internal error and no pool, and no session that
\* was opened before the failure is left open.  It fails under Spec:
\* openSessions returns at the failure and closes no session.
C14_ConstructionCleansUp ==
    ConstructionFailed =>
        \A s \in Sessions : sessState[s] \notin {"opened", "loggedin"}

\* SlotID is not an index of the token list.
BadSlot == cfg.SlotID < 0 \/ cfg.SlotID >= tok.n

\* C15 (as claimed): with a SlotID that is not an index of the token list,
\* NewHSM does not get past the slot test, ends with an internal error and
\* opens no session.  It fails under Spec for a negative SlotID: the test is
\* tokSlot >= len(toks) only, and toks[tokSlot] panics in the loop.
C15_SlotIndexOutOfRange ==
    BadSlot =>
        /\ pc[0] \in {"load", "tokens", "slot", "done"}
        /\ pc[0] = "done" => ret = "Internal"
        /\ \A s \in Sessions : sessState[s] = "unopened"

\* C16: insert, called by a release or by openSessions.  Its capacity test on
\* a queue that holds numSessions sessions ends it with an error and the queue
\* unchanged (a release drops the error, openSessions returns it); on a queue
\* that holds fewer it goes on to the send, which puts the session at the tail
\* of the queue (or hands it to the first blocked receiver) and returns no
\* error.  The queue never holds more than numSessions sessions, also with
\* more inserts than sessions running concurrently.
C16_InsertStep ==
    /\ Len(Buf') <= N'
    /\ \A p \in Procs :
          (pc[p] = "release" /\ pc'[p] # "release") =>
             IF Len(Buf) >= N
                THEN Buf' = Buf /\ pc'[p] = "done"
                ELSE Buf' = Buf /\ pc'[p] = "send"
    /\ \A p \in Procs :
          (pc[p] = "send" /\ pc'[p] # "send") =>
             /\ pc'[p] = "done"
             /\ \/ Buf' = Append(Buf, handle[p])
                \/ /\ recvq # <<>> /\ Buf' = Buf
                   /\ held'[Head(recvq)] = handle[p]
    /\ (pc[0] = "enqueue" /\ pc'[0] # "enqueue") =>
          IF Len(Buf) >= N
             THEN Buf' = Buf /\ pc'[0] = "done" /\ ret' = "Internal"
             ELSE Buf' = Append(Buf, NewSessionId(i)) /\ pc'[0] = "open" /\ ret' = ret

C16_InsertContract == [][C16_InsertStep]_vars

C16_Witness ==
    /\ N >= 1 /\ Len(Buf) = N /\ NoDuplicates(Buf)
    /\ Loaned = {}
    /\ \A x \in Procs : pc[x] \notin {"release", "send"}
    /\ \E p \in callers : pc[p] = "done" /\ relCnt[p] = 2

\* C17: a successful GenerateSymmetricKeys returns one key per parameter, in
\* the order of the parameters; key k is derived with SHA-256 from the seed
\* that parameter k selects (HighSecKdfSeed if UseHighSecuritySeed, else
\* LowSecKdfSeed), with salt Sku and info Diversifier, and is SizeInBits long,
\* hashed as a lifecycle token or not; a failing call returns no keys.
C17_SymmetricKeysShape ==
    \A p \in observed :
        res[p].op = "GenerateSymmetricKeys" =>
            IF res[p].exit = "ok"
               THEN LET ps == res[p].in.params
                        ks == res[p].out.keys
                    IN /\ Len(ks) = Len(ps)
                       /\ \A k \in 1..Len(ps) :
                             /\ ks[k].ikm =
                                   IF ps[k].UseHighSecuritySeed
                                      THEN hsm.SymmetricKeys["HighSecKdfSeed"]
                                      ELSE hsm.SymmetricKeys["LowSecKdfSeed"]
                             /\ ks[k].hash = "SHA256"
                             /\ ks[k].salt = ps[k].Sku
                             /\ ks[k].info = ps[k].Diversifier
                             /\ ks[k].len * 8 = ps[k].SizeInBits
                             /\ ks[k].hashed = (ps[k].KeyType = "HashedOtLcToken")
               ELSE res[p].out = None

C17_Witness ==
    /\ pc[1] = "done"
    /\ res[1].op = "GenerateSymmetricKeys" /\ res[1].exit = "ok"
    /\ Len(res[1].out.keys) = 2
    /\ res[1].in.params[1].UseHighSecuritySeed
    /\ ~res[1].in.params[2].UseHighSecuritySeed
    /\ res[1].in.params[1].KeyType = "HashedOtLcToken"
    /\ res[1].in.params[2].KeyType = "Raw"
    /\ res[1].out.keys[1].len = res[1].out.keys[2].len

\* C18: a successful EndorseCert (so: a supported algorithm) returns the
\* sequence of the input tbs unchanged, the OID of the algorithm
\* (1.2.840.10045.4.3.2, .3, .4 for ECDSA with SHA-256, SHA-384, SHA-512) and
\* the DER signature as a bit string of 8 bits per signature byte; the hash
\* signed with is the one of the same algorithm.
C18_EndorseCertAssembly ==
    \A p \in observed :
        (res[p].op = "EndorseCert" /\ res[p].exit = "ok") =>
            LET alg == res[p].in.SignatureAlgorithm
                out == res[p].out
                last == CASE alg = "ECDSAWithSHA256" -> 2
                          [] alg = "ECDSAWithSHA384" -> 3
                          [] alg = "ECDSAWithSHA512" -> 4
                          [] OTHER -> 0
                hash == CASE alg = "ECDSAWithSHA256" -> "SHA256"
                          [] alg = "ECDSAWithSHA384" -> "SHA384"
                          [] alg = "ECDSAWithSHA512" -> "SHA512"
                          [] OTHER -> "none"
            IN /\ alg \in SupportedAlgs
               /\ out.TBSCertificate = res[p].in.tbs
               /\ out.SignatureAlgorithm = <<1, 2, 840, 10045, 4, 3, last>>
               /\ out.hash = hash
               /\ out.SignatureValue.BitLength = 8 * Len(out.SignatureValue.Bytes)
               /\ out.SignatureValue.Bytes[1] = 48
               /\ out.SignatureValue.Bytes[2] = Len(out.SignatureValue.Bytes) - 2
               /\ res[p].log[Len(res[p].log)] = "SignECDSA"

C18_Witness ==
    /\ pc[1] = "done"
    /\ res[1].op = "EndorseCert" /\ res[1].exit = "ok"
    /\ res[1].in.SignatureAlgorithm = "ECDSAWithSHA384"
    /\ res[1].in.tbs = "tbs-2"
    /\ res[1].out.SignatureValue.Bytes = <<48, 8, 2, 3, 0, 128, 1, 2, 1, 7>>
    /\ res[1].out.SignatureValue.BitLength = 80

\* C19: RegisterDevice calls the store's InsertDevice only for a request that
\* passed ValidateDeviceRegistrationRequest, and at most once per request; a
\* request that fails validation, one without a record included, is answered
\* with status BAD_REQUEST and an InvalidArgument error, the store unchanged.
FailsValidation ==
    resp.exit # "none" /\ (resp.request.Record = Nil \/ resp.validation = "failed")
C19_ValidatesThenRecords ==
    /\ resp.inserts <= 1
    /\ resp.inserts = 1 => resp.validation = "passed"
    /\ resp.validation # "passed" => db = resp.before
    /\ FailsValidation =>
           /\ resp.status = "BAD_REQUEST"
           /\ resp.code = "InvalidArgument"
           /\ db = resp.before

\* C20: with every acquisition released exactly once, no insert called by a
\* release finds the queue full, so no release returns the capacity error and
\* no released session is dropped; the inserts of the construction do not
\* find the queue full either.
C20_NoOverflowOnRelease ==
    /\ \A p \in Procs : pc[p] = "release" => (held[p] # 0 /\ Len(Buf) < N)
    /\ pc[0] = "enqueue" => Len(q.s) < q.numSessions
    /\ \A p \in Procs : (pc[p] = "done" /\ relCnt[p] = 1 /\ handle[p] # 0) =>
           handle[p] \in InPool
    /\ Serving => InPool = 1..N

C20_Witness ==
    /\ N >= 2
    /\ \E p \in AllCallers : pc[p] = "release" /\ Len(Buf) = N - 1
    /\ \E p \in AllCallers : pc[p] = "done" /\ relCnt[p] = 1

\* The primitives of an operation in the order of its program text.
RECURSIVE ParamCalls(_)
ParamCalls(params) ==
    IF params = <<>> \/ Head(params).KeyParams \notin {"RSA", "EC"} THEN <<>>
    ELSE <<IF Head(params).KeyParams = "RSA" THEN "GenerateRSA" ELSE "GenerateECDSA",
           "ExportKey", "WrapAES", "CreateCertificate", "DestroyKeyPairObject">>
         \o ParamCalls(Tail(params))
Program(r) ==
    CASE r.op = "DeriveAndWrapTransportSecret" ->
             <<"FindSecretKey", "FindSecretKey", "HKDFDeriveAES", "WrapAES">>
      [] r.op = "VerifySession" -> <<"FindPrivateKey">>
      [] r.op = "GenerateRandom" -> <<"GenerateRandom">>
      [] r.op = "ExecuteCmd" -> <<"cmd">>
      [] r.op = "GenerateKeyPairAndCert" ->
             <<"FindPrivateKey", "Signer", "FindSecretKey">> \o ParamCalls(r.in.params)
      [] OTHER -> r.log
IsPrefix(a, b) == Len(a) <= Len(b) /\ a = SubSeq(b, 1, Len(a))

\* C21: the primitives of an operation are issued on the one session the
\* operation acquired, after its acquire and before its release, in program
\* order; no operation uses a session it does not hold, and no operation
\* holds more than one session.
C21_CallsInsideLoanWindow ==
    /\ \A p \in observed :
           /\ pc[p] \in {"idle", "acquire", "parked", "body"} => res[p].log = <<>>
           /\ (pc[p] = "release" /\ relCnt[p] = 0 /\ res[p].op # "none") =>
                  /\ res[p].sess = held[p] /\ held[p] \in 1..N
                  /\ held[p] \notin Range(Buf)
                  /\ \A x \in Procs \ {p} : held[x] # held[p]
           /\ res[p].op # "none" => IsPrefix(res[p].log, Program(res[p]))
           /\ (res[p].op # "none" /\ res[p].exit = "ok") => res[p].log = Program(res[p])
    /\ \A p \in Procs : held[p] # 0 => handle[p] = held[p]
    /\ Serving => Len(Buf) + Cardinality(Loaned) = N

C21_Witness ==
    /\ N = 2
    /\ pc[1] = "release" /\ relCnt[1] = 0 /\ held[1] = 2
    /\ res[1].op = "GenerateKeyPairAndCert" /\ res[1].exit = "ok"
    /\ Len(res[1].log) = 13
    /\ pc[2] = "body" /\ held[2] = 1

\* C22: DeriveAndWrapTransportSecret with KG absent from the registry returns
\* an internal error without any HSM call; with KT absent it returns an
\* internal error without deriving or wrapping; a wrap is issued only after a
\* successful derivation; on success only the ciphertext is returned, not
\* the IV.
C22_DeriveAndWrapLookupErrors ==
    \A p \in observed :
        res[p].op = "DeriveAndWrapTransportSecret" =>
            LET r == res[p]
                calls == {r.log[k] : k \in DOMAIN r.log}
            IN /\ "KG" \notin DOMAIN hsm.SymmetricKeys =>
                      (r.exit = "err" /\ r.code = "Internal" /\ r.log = <<>>)
               /\ "KT" \notin DOMAIN hsm.SymmetricKeys =>
                      (r.exit = "err" /\ r.code = "Internal"
                          /\ calls \cap {"HKDFDeriveAES", "WrapAES"} = {})
               /\ \A k \in DOMAIN r.log :
                      r.log[k] = "WrapAES" =>
                          (k > 1 /\ r.log[k - 1] = "HKDFDeriveAES")
               /\ r.exit = "ok" =>
                      /\ DOMAIN r.out = {"ciphertext"}
                      /\ r.out.ciphertext.under = UID("KG")
                      /\ r.out.ciphertext.wrapped.ikm = UID("KT")
                      /\ r.out.ciphertext.wrapped.salt = r.in.deviceId
                      /\ r.log[Len(r.log)] = "WrapAES"

\* C23: a successful GenerateKeyPairAndCert returns exactly one CertInfo per
\* parameter, in input order; when the k-th parameter fails (generation,
\* export, wrap or certificate creation) or its KeyParams is neither RSA nor
\* a curve (a panic), no CertInfo is returned, not even the k-1 built, and no
\* key is generated for the parameters after k.
Generated(log) ==
    Cardinality({x \in DOMAIN log : log[x] \in {"GenerateRSA", "GenerateECDSA"}})
C23_KeyPairResultShape ==
    \A p \in observed :
        res[p].op = "GenerateKeyPairAndCert" =>
            LET r == res[p]
                params == r.in.params
                g == Generated(r.log)
            IN /\ r.exit = "ok" =>
                      /\ Len(r.out.certs) = Len(params)
                      /\ \A k \in DOMAIN params :
                             /\ r.out.certs[k].Cert.template = params[k].Template
                             /\ r.out.certs[k].Cert.kind = params[k].KeyParams
                             /\ r.out.certs[k].Cert.public = k
                             /\ r.out.certs[k].WrappedKey = k
                      /\ g = Len(params)
               /\ r.exit # "ok" =>
                      /\ r.out = None
                      /\ g <= Len(params)
                      /\ r.gen \subseteq 1..g
                      /\ r.exit = "panic" =>
                             (g < Len(params) /\ params[g + 1].KeyParams = "Other"
                                 /\ r.gen = 1..g)
                      /\ (r.exit = "err" /\ g >= 1) =>
                             (1..(g - 1) \subseteq r.gen
                                 /\ r.log[Len(r.log)] # "DestroyKeyPairObject")

C23_Witness ==
    /\ pc[1] = "done"
    /\ res[1].op = "GenerateKeyPairAndCert" /\ res[1].exit = "err"
    /\ Len(res[1].in.params) = 2
    /\ res[1].in.params[1].KeyParams = "RSA" /\ res[1].in.params[2].KeyParams = "EC"
    /\ res[1].gen = {1, 2}
    /\ res[1].log[Len(res[1].log)] = "CreateCertificate"
    /\ res[1].out = None

\* C24: with NumSessions >= 1 and HSM calls that return, NewHSM terminates
\* with a handle or an error, and on success leaves all N sessions in the
\* queue and none loaned; with NumSessions = 0 the pool construction succeeds
\* with an empty queue and NewHSM then blocks for ever in its own getHandle,
\* also when no key label is configured.
Blocked0 == pc[0] \in {"acquire", "parked"}
C24_NewHSMTermination ==
    /\ cfg.NumSessions >= 1 => <>(pc[0] = "done" /\ ret \in {"hsm", "Internal"})
    /\ [](Serving /\ (\A p \in AllCallers : pc[p] = "idle") =>
              (Len(Buf) = N /\ N = cfg.NumSessions /\ Loaned = {}))
    /\ []((cfg.NumSessions = 0 /\ pc[0] = "open") => <>Blocked0)
    /\ []((cfg.NumSessions = 0 /\ Blocked0) => [](Blocked0 /\ Buf = <<>> /\ hsm # Nil))

\* C25: every response RegisterDevice returns carries the DeviceId of the
\* request's record; its status is SUCCESS exactly when the error is nil,
\* which is exactly when validation and InsertDevice both succeeded; a failed
\* insert gives BAD_REQUEST with an Internal error; UNSPECIFIED and
\* BUFFER_FULL are never returned.
C25_OutcomeMapping ==
    resp.exit \in {"ok", "err"} =>
        /\ resp.request.Record # Nil
        /\ resp.DeviceId = resp.request.Record.DeviceId
        /\ (resp.status = "SUCCESS") <=> (resp.code = "OK")
        /\ (resp.code = "OK") <=> (resp.exit = "ok")
        /\ (resp.exit = "ok") <=> (resp.validation = "passed" /\ resp.insert = "ok")
        /\ resp.insert = "err" => (resp.status = "BAD_REQUEST" /\ resp.code = "Internal")
        /\ resp.status \in {"SUCCESS", "BAD_REQUEST"}

C25_Witness ==
    /\ resp.exit = "err" /\ resp.insert = "err"
    /\ resp.status = "BAD_REQUEST" /\ resp.code = "Internal"
    /\ resp.DeviceId = "dev-2"
    /\ "dev-2" \in DOMAIN resp.before
    /\ resp.before["dev-2"] # resp.request.Record.Data
    /\ db = resp.before

====
